---- MODULE Spec2Model ----
(***************************************************************************)
(* Model of process_model.py: the job-control script that resolves a       *)
(* command plugin, writes the journal and add-in files, launches the       *)
(* application through a shell, discovers its first child, polls the       *)
(* launched process once a second up to `timeout` seconds, kills the child *)
(* on timeout, logs the outcome and runs the post-run hooks.               *)
(*                                                                         *)
(* One run of the script is one behaviour.  The script is sequential; pc   *)
(* is its position.  The launched process and its children run on their    *)
(* own and may exit between any two steps of the script.                   *)
(***************************************************************************)
EXTENDS Integers, Sequences, FiniteSets

\* ---------------------------------------------------------------- bounds
MaxTimeout == 3
MaxChildren == 2

\* ------------------------------------------------------------- constants
\* poll() returns None while the process runs; the log row of line 251
\* leaves the error_code column empty
PollNone == -1
NoCode == -1
\* pid of the launched process; its children are RunPid+1 .. RunPid+nChildren
RunPid == 1
NoProc == 0

Pids == RunPid .. (RunPid + MaxChildren)
CommandNames == {"qc", "warnings", "audit", "unknown_cmd"}

VARIABLES
    \* inputs of the run: command line, file system, behaviour of the worker
    command,        \* args["<command>"]
    timeout,        \* int(args["<timeout>"])
    model_exists,   \* op.exists(rvt_model_path)
    commandDirs,    \* names of the directories under commands_dir
    descriptor,     \* __init__.py / register of the directory named command
    logExisted,     \* op.exists(job_logging) at start
    behaviour,      \* what the launched process tree does on its own
    nChildren,      \* children the launched process spawns
    versionOk,      \* model version readable and that version installed
    \* state of the script
    pc,
    cmd_dict,       \* result of command_detection, a set of <<key, value>>
    envSet,         \* RVT_QC_PRJ, RVT_QC_PATH, RVT_LOG_PATH are set
    logHeader,      \* this run created job_logging.csv and wrote the header
    logRows,        \* rows this run appended to job_logging.csv
    journalWrites,  \* writes of journals/<project_code>.txt
    addinWrites,    \* writes of journals/RevitPythonShell.addin
    launched,       \* rvt_journal_run was called
    running,        \* pid -> is the process alive
    exitCode,       \* returncode of the launched process, PollNone if alive
    child_proc,     \* pid of run_proc.children()[0], NoProc before discovery
    nChildrenSeen,  \* len(run_proc.children()) at discovery, -1 before
    ticks,          \* iterations of the timeout loop executed so far
    poll,           \* last value of run_proc.poll()
    zeroTick,       \* iteration (1-based) whose poll returned 0, 0 if none
    nonZeroTick,    \* first iteration whose poll returned a non-zero code
    polled,         \* pids poll() was called on
    killed,         \* pids kill() was called on
    kills,          \* number of kill() calls
    graphCalls,     \* calls of update_graphs
    warnCalls,      \* calls of update_json_and_bokeh
    outcome,        \* "None", "Completed", "TimedOut", "ModelNotFound"
    crash           \* uncaught exception that ended the run, "none" if none

inputs == <<command, timeout, model_exists, commandDirs, descriptor,
            logExisted, behaviour, nChildren, versionOk>>
logState == <<logHeader, logRows>>
files == <<journalWrites, addinWrites>>
procState == <<launched, running, exitCode>>
discovery == <<child_proc, nChildrenSeen>>
loopState == <<ticks, poll, zeroTick, nonZeroTick, polled, killed,
               kills>>
hooks == <<graphCalls, warnCalls>>
vars == <<inputs, pc, cmd_dict, envSet, logState, files, procState,
          discovery, loopState, hooks, outcome, crash>>

\* ------------------------------------------------------- plugin registry
\* the register mapping the three shipped plugins declare
WellFormed(c) ==
    [hasInit |-> TRUE, hasRegister |-> TRUE, name |-> c,
     hasButton |-> (c = "qc"),
     writer |-> IF c = "warnings" THEN "warnings_export_command"
                ELSE IF c = "audit" THEN "audit" ELSE "none"]

\* the descriptors a directory named c may hold: the shipped one, and the
\* ways it can be missing or malformed
Descriptors(c) ==
    { WellFormed(c),
      [WellFormed(c) EXCEPT !.hasInit = FALSE],
      [WellFormed(c) EXCEPT !.hasRegister = FALSE],
      [WellFormed(c) EXCEPT !.name = "other"],
      [WellFormed(c) EXCEPT !.hasButton = FALSE, !.writer = "none"],
      [WellFormed(c) EXCEPT !.hasButton = FALSE, !.writer = "unknown"] }

NoDescriptor == WellFormed("none")

\* if not found_dir: exit()
NotFoundExitsMutant(found_dir) == FALSE
NotFoundExits(found_dir) == ~found_dir

\* command_detection with the journal-writer entries stored under the
\* writer's name instead of the command's
command_detectionMutant(search_command, dirs, d) ==
    LET found_dir == search_command \in dirs
        button == IF d.hasButton
                  THEN {<<search_command, "rps_button">>} ELSE {}
        com_dict ==
            IF found_dir /\ d.hasInit /\ d.hasRegister
               /\ d.name = search_command
            THEN IF d.writer = "warnings_export_command"
                 THEN {<<d.writer, "warn_cmd">>}
                 ELSE IF d.writer = "audit"
                 THEN {<<d.writer, "' ">>}
                 ELSE button
            ELSE {}
    IN  [exits |-> (found_dir /\ ~d.hasInit) \/ NotFoundExits(found_dir),
         com_dict |-> com_dict]

\* command_detection: result is [exits, com_dict]
command_detection(search_command, dirs, d) ==
    LET found_dir == search_command \in dirs
        button == IF d.hasButton
                  THEN {<<search_command, "rps_button">>} ELSE {}
        com_dict ==
            IF found_dir /\ d.hasInit /\ d.hasRegister
               /\ d.name = search_command
            THEN IF d.writer = "warnings_export_command"
                 THEN {<<search_command, "warn_cmd">>}
                 ELSE IF d.writer = "audit"
                 THEN {<<search_command, "' ">>}
                 ELSE button
            ELSE {}
    IN  [exits |-> (found_dir /\ ~d.hasInit) \/ NotFoundExits(found_dir),
         com_dict |-> com_dict]

\* cmd_dict[command] raises KeyError when the key is absent
HasKeyMutant(dict, k) == TRUE
HasKey(dict, k) == \E kv \in dict : kv[1] = k

\* -------------------------------------------------------------- logging
Row(level, code, msg) == [level |-> level, code |-> code, msg |-> msg]
TaskStartedRow == Row("INFO", NoCode, "task_started")
SuccessRow == Row("INFO", 0, "")
TimeoutRow == Row("WARNING", 1, "")

\* ---------------------------------------------------------------- Init
Init ==
    /\ command \in CommandNames
    /\ timeout \in 0..MaxTimeout
    /\ model_exists \in BOOLEAN
    /\ commandDirs \in {{"qc", "warnings", "audit"}, {"qc"}}
    /\ descriptor \in IF command \in commandDirs
                      THEN Descriptors(command) ELSE {NoDescriptor}
    /\ logExisted \in BOOLEAN
    /\ behaviour \in {"never", "exit0", "exitNZ"}
    /\ nChildren \in 0..MaxChildren
    /\ versionOk \in BOOLEAN
    /\ pc = "start"
    /\ cmd_dict = {}
    /\ envSet = FALSE
    /\ logHeader = FALSE
    /\ logRows = <<>>
    /\ journalWrites = 0
    /\ addinWrites = 0
    /\ launched = FALSE
    /\ running = [p \in Pids |-> FALSE]
    /\ exitCode = PollNone
    /\ child_proc = NoProc
    /\ nChildrenSeen = -1
    /\ ticks = 0
    /\ poll = PollNone
    /\ zeroTick = 0
    /\ nonZeroTick = 0
    /\ polled = {}
    /\ killed = {}
    /\ kills = 0
    /\ graphCalls = 0
    /\ warnCalls = 0
    /\ outcome = "None"
    /\ crash = "none"

\* ------------------------------------------------------------- actions
\* lines 234-255: seed the log, log task_started, set the environment
Startup ==
    /\ pc = "start"
    /\ logHeader' = ~logExisted
    /\ logRows' = Append(logRows, TaskStartedRow)
    /\ envSet' = TRUE
    /\ pc' = "resolve"
    /\ UNCHANGED <<inputs, cmd_dict, files, procState, discovery, loopState,
                   hooks, outcome, crash>>

\* line 257: cmd_dict = command_detection(...)
CommandDetection ==
    /\ pc = "resolve"
    /\ LET r == command_detection(command, commandDirs, descriptor)
       IN  IF r.exits
           THEN pc' = "aborted" /\ UNCHANGED cmd_dict
           ELSE pc' = "check_model" /\ cmd_dict' = r.com_dict
    /\ UNCHANGED <<inputs, envSet, logState, files, procState, discovery,
                   loopState, hooks, outcome, crash>>

\* lines 339-342: else branch of `if model_exists`
ModelNotFound ==
    /\ pc = "check_model"
    /\ ~model_exists
    /\ outcome' = "ModelNotFound"
    /\ pc' = "done"
    /\ UNCHANGED <<inputs, cmd_dict, envSet, logState, files, procState,
                   discovery, loopState, hooks, crash>>

\* lines 260-272: pick the template, write the journal
WriteJournal ==
    /\ pc = "check_model"
    /\ model_exists
    /\ IF HasKey(cmd_dict, command)
       THEN /\ journalWrites' = journalWrites + 1
            /\ pc' = "write_addin"
            /\ UNCHANGED crash
       ELSE /\ crash' = "KeyError"
            /\ pc' = "crashed"
            /\ UNCHANGED journalWrites
    /\ UNCHANGED <<inputs, cmd_dict, envSet, logState, addinWrites,
                   procState, discovery, loopState, hooks, outcome>>

\* lines 274-278
WriteAddin ==
    /\ pc = "write_addin"
    /\ addinWrites' = addinWrites + 1
    /\ pc' = "launch"
    /\ UNCHANGED <<inputs, cmd_dict, envSet, logState, journalWrites,
                   procState, discovery, loopState, hooks, outcome, crash>>

\* lines 280-284: run_proc = rvt_journal_run(...)
Launch ==
    /\ pc = "launch"
    /\ launched' = TRUE
    /\ running' = [p \in Pids |-> p <= RunPid + nChildren]
    /\ pc' = "discover"
    /\ UNCHANGED <<inputs, cmd_dict, envSet, logState, files, exitCode,
                   discovery, loopState, hooks, outcome, crash>>

\* children of the launched process that are alive, run_proc.children()
children == {p \in Pids : p > RunPid /\ running[p]}
FirstChild == CHOOSE p \in children : \A q \in children : p <= q

\* lines 286-297: time.sleep(1); child_proc = run_proc.children()[0]
ChildDiscovery ==
    /\ pc = "discover"
    /\ nChildrenSeen' = Cardinality(children)
    /\ IF children = {}
       THEN /\ crash' = "IndexError"
            /\ pc' = "crashed"
            /\ UNCHANGED child_proc
       ELSE /\ child_proc' = FirstChild
            /\ pc' = "detect"
            /\ UNCHANGED crash
    /\ UNCHANGED <<inputs, cmd_dict, envSet, logState, files, procState,
                   loopState, hooks, outcome>>

\* range(timeout) is empty for timeout <= 0
LoopEntry(t) == IF t > 0 THEN "polling" ELSE "postloop"

\* lines 299-307: get_rvt_file_version, installed_rvt_detection; the lookup
\* rvt_install_paths[search_version] raises for a version not installed
VersionDetection ==
    /\ pc = "detect"
    /\ IF versionOk
       THEN pc' = LoopEntry(timeout) /\ UNCHANGED crash
       ELSE pc' = "crashed" /\ crash' = "KeyError"
    /\ UNCHANGED <<inputs, cmd_dict, envSet, logState, files, procState,
                   discovery, loopState, hooks, outcome>>

\* run_proc.poll(): the return code, None while the process is alive
Poll(p) == IF running[p] THEN PollNone ELSE exitCode

\* `not poll` is true of None and of 0
NotPollMutant(p) == TRUE
NotPoll(p) == p = PollNone \/ p = 0

\* elif timeout-sec-1 == 0
IsLastTickMutant(t, sec) == t - sec - 2 = 0
IsLastTick(t, sec) == t - sec - 1 = 0

\* the handle poll() is called on, line 313
PollTarget(run_proc, child) == run_proc

\* the handle kill() is called on, line 328
KillTargetMutant(run_proc, child) == run_proc
KillTarget(run_proc, child) == child

\* if command == "qc": update_graphs(...), line 319
GraphHookForMutant(c) == c \in {"qc", "audit"}
GraphHookFor(c) == c = "qc"

\* where the for loop goes after iteration sec: break leaves it, and so
\* does the end of range(timeout)
AfterTickMutant(broke, t, sec) ==
    IF sec + 1 >= t THEN "postloop" ELSE "polling"
AfterTick(broke, t, sec) ==
    IF broke \/ sec + 1 >= t THEN "postloop" ELSE "polling"

\* lines 310-330: one iteration of the main timeout loop
Tick ==
    /\ pc = "polling"
    /\ ticks < timeout
    /\ LET sec == ticks
           p == Poll(PollTarget(RunPid, child_proc))
           target == KillTarget(RunPid, child_proc)
       IN  /\ ticks' = ticks + 1
           /\ poll' = p
           /\ polled' = polled \cup {PollTarget(RunPid, child_proc)}
           /\ nonZeroTick' = IF nonZeroTick = 0 /\ p \notin {PollNone, 0}
                              THEN sec + 1 ELSE nonZeroTick
           /\ IF p = 0
              THEN \* revit finished
                   /\ logRows' = Append(logRows, SuccessRow)
                   /\ graphCalls' = IF GraphHookFor(command)
                                    THEN graphCalls + 1 ELSE graphCalls
                   /\ outcome' = "Completed"
                   /\ zeroTick' = IF zeroTick = 0 THEN sec + 1 ELSE zeroTick
                   /\ pc' = AfterTick(TRUE, timeout, sec)
                   /\ UNCHANGED <<killed, kills, running, crash>>
              ELSE IF IsLastTick(timeout, sec)
              THEN \* timeout!!
                   /\ outcome' = "TimedOut"
                   /\ UNCHANGED <<graphCalls, zeroTick>>
                   /\ IF NotPoll(p)
                      THEN /\ killed' = killed \cup {target}
                           /\ kills' = kills + 1
                           /\ \/ \* the kill goes through
                                 /\ running' = [running EXCEPT ![target] = FALSE]
                                 /\ logRows' = IF command # "warnings"
                                               THEN Append(logRows, TimeoutRow)
                                               ELSE logRows
                                 /\ pc' = AfterTick(FALSE, timeout, sec)
                                 /\ UNCHANGED crash
                              \/ \* the target is gone: psutil.NoSuchProcess
                                 /\ ~running[target]
                                 /\ crash' = "NoSuchProcess"
                                 /\ pc' = "crashed"
                                 /\ UNCHANGED <<running, logRows>>
                      ELSE /\ pc' = AfterTick(FALSE, timeout, sec)
                           /\ UNCHANGED <<killed, kills, running, logRows,
                                          crash>>
              ELSE /\ pc' = AfterTick(FALSE, timeout, sec)
                   /\ UNCHANGED <<killed, kills, running, logRows,
                                  graphCalls, zeroTick, outcome, crash>>
    /\ UNCHANGED <<inputs, cmd_dict, envSet, logHeader, files, launched,
                   exitCode, discovery, warnCalls>>

\* if command == "warnings": update_json_and_bokeh(...), line 333
WarningsHookForMutant(c) == c \in {"warnings", "qc"}
WarningsHookFor(c) == c = "warnings"

\* lines 332-342: post loop processing, end of the script
PostLoop ==
    /\ pc = "postloop"
    /\ IF WarningsHookFor(command)
       THEN /\ warnCalls' = warnCalls + 1
            /\ logRows' = Append(logRows, SuccessRow)
       ELSE UNCHANGED <<warnCalls, logRows>>
    /\ pc' = "done"
    /\ UNCHANGED <<inputs, cmd_dict, envSet, logHeader, files, procState,
                   discovery, loopState, graphCalls, outcome, crash>>

\* ------------------------------------------ the launched process tree
\* the script is blocked in time.sleep or between two statements
ScriptAlive == pc \in {"discover", "detect", "polling", "postloop"}

\* the launched process exits on its own with the code its behaviour gives
LaunchedExits ==
    /\ ScriptAlive
    /\ launched
    /\ running[RunPid]
    /\ behaviour \in {"exit0", "exitNZ"}
    /\ running' = [running EXCEPT ![RunPid] = FALSE]
    /\ exitCode' = IF behaviour = "exit0" THEN 0 ELSE 1
    /\ UNCHANGED <<inputs, pc, cmd_dict, envSet, logState, files, launched,
                   discovery, loopState, hooks, outcome, crash>>

\* a child of the launched process exits on its own
ChildExits ==
    /\ ScriptAlive
    /\ launched
    /\ behaviour \in {"exit0", "exitNZ"}
    /\ \E p \in children :
          running' = [running EXCEPT ![p] = FALSE]
    /\ UNCHANGED <<inputs, pc, cmd_dict, envSet, logState, files, launched,
                   exitCode, discovery, loopState, hooks, outcome, crash>>

Next ==
    \/ Startup
    \/ CommandDetection
    \/ ModelNotFound
    \/ WriteJournal
    \/ WriteAddin
    \/ Launch
    \/ ChildDiscovery
    \/ VersionDetection
    \/ Tick
    \/ PostLoop
    \/ LaunchedExits
    \/ ChildExits

Spec == Init /\ [][Next]_vars

\* ------------------------------------------------------------ typing
TypeOK ==
    /\ pc \in {"start", "resolve", "aborted", "check_model", "write_addin",
               "launch", "discover", "detect", "polling", "postloop",
               "done", "crashed"}
    /\ ticks \in 0..timeout
    /\ poll \in {PollNone, 0, 1}
    /\ killed \subseteq Pids
    /\ kills \in 0..1
    /\ polled \subseteq Pids
    /\ outcome \in {"None", "Completed", "TimedOut", "ModelNotFound"}

\* ------------------------------------------------------------ helpers
\* the script has left the timeout loop (the model-not-found branch reaches
\* the end of the script without a launch)
PastPolling == launched /\ pc \in {"postloop", "done"}
CountRows(r) == Cardinality({i \in DOMAIN logRows : logRows[i] = r})
OutcomeRows == Cardinality({i \in DOMAIN logRows : logRows[i].code # NoCode})
NoArtifacts == journalWrites = 0 /\ addinWrites = 0
NoHooks == graphCalls = 0 /\ warnCalls = 0

\* ------------------------------------------------------------- claims

\* C1: with timeout >= 1 and a worker that never exits, the loop runs
\* exactly `timeout` iterations, no timeout and no kill happen before the
\* last one, and once the script is past the loop the outcome is TimedOut,
\* the kill was issued on the worker (the discovered child) and the worker
\* is no longer running.
C1_TimeoutKillsWorker ==
    (behaviour = "never" /\ timeout >= 1) =>
        /\ pc = "polling" =>
              (outcome = "None" /\ killed = {} /\ ticks < timeout)
        /\ PastPolling =>
              /\ outcome = "TimedOut"
              /\ ticks = timeout
              /\ child_proc \in killed
              /\ ~running[child_proc]

C1_Witness ==
    /\ behaviour = "never"
    /\ timeout >= 2
    /\ pc = "done"
    /\ outcome = "TimedOut"
    /\ ticks = timeout
    /\ killed = {child_proc}
    /\ ~running[child_proc]

\* C2: whenever the script is past the polling loop and the launched
\* process has not exited, a kill has been issued.
C2_NoOrphanPastPolling ==
    (PastPolling /\ running[RunPid]) => killed # {}

\* C3: once a poll has returned 0 at iteration t, the outcome is
\* Completed, the loop is left, and the number of iterations executed stays
\* equal to t.
C3_CompletedAtTick ==
    zeroTick # 0 =>
        /\ outcome = "Completed"
        /\ PastPolling
        /\ ticks = zeroTick

C3_Witness ==
    /\ zeroTick # 0
    /\ zeroTick < timeout
    /\ pc = "done"
    /\ ticks = zeroTick
    /\ outcome = "Completed"

\* C4: a finished run whose model exists and whose polling loop ran has
\* appended exactly one row carrying a result code.
C4_ExactlyOneOutcomeRow ==
    (pc = "done" /\ model_exists /\ ticks >= 1) => OutcomeRows = 1

\* C5: a finished run that timed out and killed the worker has appended
\* exactly one warning-level row with code 1 and no success row, whatever
\* the command.
C5_TimeoutLoggedAsWarning ==
    (pc = "done" /\ outcome = "TimedOut" /\ killed # {}) =>
        (CountRows(TimeoutRow) = 1 /\ CountRows(SuccessRow) = 0)

\* C6: a run that got past command resolution ends in ModelNotFound iff
\* the model file does not exist; in that outcome nothing is written,
\* launched, killed or hooked; and when the file exists the journal is
\* written and a process is launched.
C6_ModelNotFoundIff ==
    /\ pc \in {"done", "crashed"} =>
          (outcome = "ModelNotFound" <=> ~model_exists)
    /\ outcome = "ModelNotFound" =>
          (NoArtifacts /\ ~launched /\ killed = {} /\ NoHooks)
    /\ (pc \in {"done", "crashed"} /\ model_exists) =>
          (journalWrites >= 1 /\ launched)

\* C7 as stated: when the command matches no directory the run aborts
\* with no file written at all, the log file included.
C7_AbortBeforeAnyFileIO ==
    (pc = "aborted" /\ command \notin commandDirs) =>
        /\ NoArtifacts
        /\ ~logHeader
        /\ logRows = <<>>
        /\ ~launched
        /\ NoHooks

\* C7 amended: when the command matches no directory the run aborts at
\* resolution with the journals directory unchanged, no process launched
\* and no hook invoked; the log file has by then been seeded (if it was
\* absent) and holds the task_started row and nothing else of this run.
C7_AbortBeforeJournal ==
    (command \notin commandDirs /\ pc \notin {"start", "resolve"}) =>
        /\ pc = "aborted"
        /\ NoArtifacts
        /\ ~launched
        /\ killed = {}
        /\ NoHooks
        /\ logRows = <<TaskStartedRow>>
        /\ logHeader = ~logExisted

C7_Witness ==
    /\ pc = "aborted"
    /\ command = "unknown_cmd"
    /\ logHeader
    /\ logRows = <<TaskStartedRow>>
    /\ NoArtifacts

\* C8: a launched process with zero children at discovery is not a
\* failure: the run goes on.
C8_ZeroChildrenNotFatal ==
    nChildrenSeen = 0 => pc # "crashed"

\* C9 as stated: the process polled and the process killed are both the
\* launched one.
C9_PollAndKillLaunched ==
    polled \subseteq {RunPid} /\ killed \subseteq {RunPid}

\* C9 amended: the process polled is always the launched one; the process
\* killed on timeout is always the discovered first child, a process other
\* than the launched one.
C9_PollLaunchedKillChild ==
    /\ polled \subseteq {RunPid}
    /\ killed \subseteq {child_proc}
    /\ RunPid \notin killed
    /\ NoProc \notin killed

C9_Witness ==
    /\ polled = {RunPid}
    /\ killed = {child_proc}
    /\ child_proc > RunPid
    /\ pc = "done"

\* C10: the graph-update hook has been called once if the command is qc
\* and the outcome is Completed, and not at all otherwise.
C10_GraphHookIffQcCompleted ==
    graphCalls = IF command = "qc" /\ outcome = "Completed" THEN 1 ELSE 0

C10_Witness ==
    /\ pc = "done"
    /\ command = "qc"
    /\ outcome = "Completed"
    /\ zeroTick = timeout - 1
    /\ graphCalls = 1
    /\ CountRows(SuccessRow) = 1
    /\ OutcomeRows = 1

C12_HooksAfterPollingAtMostOnce ==
    /\ [](/\ graphCalls + warnCalls <= 1
          /\ graphCalls + warnCalls = 1 => PastPolling
          /\ command = "audit" => NoHooks)
    /\ [][graphCalls + warnCalls >= 1 =>
            (ticks' = ticks /\ kills' = kills /\ killed' = killed)]_vars

C12_Witness ==
    /\ pc = "done"
    /\ graphCalls + warnCalls = 1
    /\ ticks >= 1
    /\ ticks < timeout

\* a directory named c whose descriptor has a register mapping with the
\* right name and a capability key command_detection recognises
Registered(c, dirs, d) ==
    /\ c \in dirs
    /\ d.hasInit /\ d.hasRegister /\ d.name = c
    /\ d.hasButton \/ d.writer \in {"warnings_export_command", "audit"}

\* C13: once resolution is over, a command with a registered plugin
\* directory has a result holding an entry keyed by the requested name and
\* no other key, and a command with no matching directory has aborted the
\* run and returned nothing.
C13_ResolveByName ==
    pc \notin {"start", "resolve"} =>
        /\ Registered(command, commandDirs, descriptor) =>
              /\ pc # "aborted"
              /\ \E kv \in cmd_dict : kv[1] = command
              /\ \A kv \in cmd_dict : kv[1] = command
        /\ command \notin commandDirs =>
              (pc = "aborted" /\ cmd_dict = {})

C13_Witness ==
    /\ pc = "check_model"
    /\ command = "audit"
    /\ Registered(command, commandDirs, descriptor)
    /\ cmd_dict = {<<"audit", "' ">>}

\* a directory named c exists but its descriptor is missing or malformed
Malformed(c, dirs, d) == c \in dirs /\ ~Registered(c, dirs, d)

\* C14: when the directory exists but its descriptor is missing or
\* malformed, the run aborts at resolution: it never goes on to
\* ModelNotFound, to the journal or to a launch.
C14_InvalidPluginAborts ==
    (Malformed(command, commandDirs, descriptor)
       /\ pc \notin {"start", "resolve"}) =>
        /\ pc = "aborted"
        /\ outcome # "ModelNotFound"
        /\ journalWrites = 0
        /\ ~launched

\* C15: a run whose poll saw a non-zero exit code on an iteration before
\* the last never completes, runs
\* all `timeout` iterations, and ends TimedOut with the timeout row logged.
C15_NonZeroExitTimesOut ==
    (nonZeroTick # 0 /\ nonZeroTick < timeout) =>
        /\ outcome # "Completed"
        /\ zeroTick = 0
        /\ PastPolling =>
              /\ ticks = timeout
              /\ outcome = "TimedOut"
              /\ CountRows(TimeoutRow) = 1

\* C16: once a process is launched, the three environment variables are
\* set, resolution has returned an entry for the command, and the journal
\* and the add-in descriptor have each been written exactly once; the
\* counts stay so to the end of the run.
C16_LaunchAfterSetup ==
    launched =>
        /\ envSet
        /\ pc # "aborted"
        /\ \E kv \in cmd_dict : kv[1] = command
        /\ journalWrites = 1
        /\ addinWrites = 1

C16_Witness ==
    /\ launched
    /\ pc = "done"
    /\ envSet
    /\ journalWrites = 1
    /\ addinWrites = 1
    /\ ticks >= 1

\* C17: the log holds a success row only if a poll returned 0, and a run
\* that issued a kill holds none.
C17_SuccessRowOnlyOnExitZero ==
    /\ CountRows(SuccessRow) >= 1 => zeroTick # 0
    /\ kills >= 1 => CountRows(SuccessRow) = 0

\* C18: at most one kill is issued; a kill happens only on iteration
\* number `timeout`, on a poll that returned None (the launched process
\* was never seen exited); a completed run has no kill.
C18_KillOnceAtDeadline ==
    /\ kills <= 1
    /\ kills = Cardinality(killed)
    /\ kills = 1 =>
          /\ ticks = timeout
          /\ poll = PollNone
          /\ zeroTick = 0
          /\ outcome = "TimedOut"
    /\ outcome = "Completed" => kills = 0

C18_Witness ==
    /\ kills = 1
    /\ killed = {child_proc}
    /\ ticks = timeout
    /\ timeout >= 2
    /\ poll = PollNone
    /\ pc = "done"

====
